---- MODULE Spec2Model ----
(***************************************************************************)
(* The two session hooks of the web application, useSender and            *)
(* useReceiver, as one state machine: the React state of the mounted hook, *)
(* the values its closures and refs hold, the event handlers it has        *)
(* registered with the event bus, its commands in flight, its timers and   *)
(* the calls it has made to trackDataTransfer.                             *)
(*                                                                         *)
(* Strings whose content the code inspects (paths, tickets, payloads) are  *)
(* sequences of one-character strings.  A nullable value is <<>> (null)    *)
(* or <<v>>.  A JavaScript number that can come out of parseInt is a       *)
(* record [nan, num, den]: NaN, or the rational num/den.                   *)
(***************************************************************************)
EXTENDS Integers, Sequences, FiniteSets, TLC

(***************************************************************************)
(* Bounds of the model                                                     *)
(***************************************************************************)
\* clock ticks a behaviour may take
MaxTicks == 2
\* inputs a behaviour may take: events the engine emits and commands the
\* user gives
MaxInputs == 4

(***************************************************************************)
(* Program constants                                                       *)
(***************************************************************************)
\* setTimeout(() => setResumedFrom(null), 5000)
ResumeWindowMs == 5000
\* const speedBps = speedInt / 1000.0
SpeedDivisor == 1000

\* the clock advances in half windows; Date.now() is positive from the start
TickMs == ResumeWindowMs \div 2
Epoch == TickMs

(***************************************************************************)
(* JavaScript values                                                       *)
(***************************************************************************)
Null == <<>>
Some(v) == <<v>>

NaN == [nan |-> TRUE, num |-> 0, den |-> 1]
Num(n) == [nan |-> FALSE, num |-> n, den |-> 1]

DigitChars == {"0", "1", "2", "3", "4", "5", "6", "7", "8", "9"}

DigitOf(c) ==
  CASE c = "0" -> 0 [] c = "1" -> 1 [] c = "2" -> 2 [] c = "3" -> 3
    [] c = "4" -> 4 [] c = "5" -> 5 [] c = "6" -> 6 [] c = "7" -> 7
    [] c = "8" -> 8 [] c = "9" -> 9

\* s.split(sep)
RECURSIVE Split(_, _)
Split(s, sep) ==
  IF \A i \in 1..Len(s) : s[i] # sep
  THEN <<s>>
  ELSE LET i == CHOOSE k \in 1..Len(s) :
                   s[k] = sep /\ \A j \in 1..(k - 1) : s[j] # sep
       IN <<SubSeq(s, 1, i - 1)>> \o Split(SubSeq(s, i + 1, Len(s)), sep)

\* parts.pop()
Pop(parts) == parts[Len(parts)]

\* s.trim(): the only whitespace of the model's alphabet is the blank
RECURSIVE TrimStart(_)
TrimStart(s) == IF s # <<>> /\ Head(s) = " " THEN TrimStart(Tail(s)) ELSE s

RECURSIVE TrimEnd(_)
TrimEnd(s) ==
  IF s # <<>> /\ s[Len(s)] = " " THEN TrimEnd(SubSeq(s, 1, Len(s) - 1)) ELSE s

Trim(s) == TrimEnd(TrimStart(s))

RECURSIVE DigitPrefix(_, _)
DigitPrefix(s, acc) ==
  IF s = <<>> \/ Head(s) \notin DigitChars
  THEN acc
  ELSE DigitPrefix(Tail(s), acc * 10 + DigitOf(Head(s)))

\* parseInt(s, 10): leading blanks skipped, a sign taken, the longest digit
\* prefix read, NaN when there is none
ParseInt(s) ==
  LET t == TrimStart(s)
      signed == t # <<>> /\ Head(t) \in {"-", "+"}
      digits == IF signed THEN Tail(t) ELSE t
  IN IF digits = <<>> \/ Head(digits) \notin DigitChars THEN NaN
     ELSE IF signed /\ Head(t) = "-" THEN Num(0 - DigitPrefix(digits, 0))
     ELSE Num(DigitPrefix(digits, 0))

\* x || fallback on a string
OrElse(s, fallback) == IF s = <<>> THEN fallback ELSE s

\* truthiness of a nullable string: neither null nor ''
Truthy(x) == x # Null /\ x[1] # <<>>

(***************************************************************************)
(* Event names, in the order setupListeners registers their handlers       *)
(***************************************************************************)
SenderEvents ==
  << "import-started", "import-file-count", "import-progress",
     "import-completed", "transfer-started", "transfer-progress",
     "transfer-completed" >>

ReceiverEvents ==
  << "receive-started", "receive-resumed", "receive-progress",
     "receive-file-names", "export-started", "export-progress",
     "export-completed", "receive-completed" >>

(***************************************************************************)
(* Inputs                                                                  *)
(***************************************************************************)
\* "/t/v", a file in a directory
PathVideo == << "/", "t", "/", "v" >>
SelectablePaths == {PathVideo}

\* the ticket start_sharing returns
EngineTickets == { << "T", "1" >> }

\* what get_file_size answers
FileSizes == {2}

\* the text of a rejected command or a failed resource
ErrorText == "E"

\* "1:2:5", "4:3:0" and "1:0:5" are well formed; "1:2" has two fields
ProgressPayloads ==
  { << "1", ":", "2", ":", "5" >>,
    << "4", ":", "3", ":", "0" >>,
    << "1", ":", "0", ":", "5" >>,
    << "1", ":", "2" >> }

\* import-file-count / export-started payloads
CountPayloads == { << "3" >> }

\* payloads of import-file-count, export-started and receive-resumed that
\* are not the text of an integer
GarbledPayloads == { << "x" >> }

\* import-progress / export-progress payloads: "1:3:33" and the short "1:3"
StepPayloads ==
  { << "1", ":", "3", ":", "3", "3" >>,
    << "1", ":", "3" >> }

(***************************************************************************)
(* State                                                                   *)
(***************************************************************************)
VARIABLES
  hook,        \* the hook this application instance has mounted
  mounted,     \* whether it is still mounted
  now,         \* Date.now()
  sender,      \* the useState cells of useSender
  receiver,    \* the useState cells of useReceiver
  refs,        \* the useRef cells of useReceiver
  rendered,    \* what the last committed render saw: closures and effect deps
  listeners,   \* one record per run of the listener effect, oldest first
  pending,     \* commands and resource requests awaiting their reply
  timers,      \* deadlines of the pending setTimeout callbacks
  engineStarted, \* the engine has been commanded, so it may emit events
  inputs,      \* events emitted and commands given so far
  analytics,   \* the calls of trackDataTransfer so far, each with its outcome
  dropped      \* history: the event whose payload a handler last dropped
               \* and its number among the inputs, 0 when none was

vars ==
  << hook, mounted, now, sender, receiver, refs, rendered, listeners,
     pending, timers, engineStarted, inputs, analytics, dropped >>

\* the engine emits one more event
Emit == inputs < MaxInputs /\ inputs' = inputs + 1

\* the user gives one more command
Command == inputs < MaxInputs /\ inputs' = inputs + 1

\* a handler applies the event it is given
Applied == dropped' = dropped

\* the handler of an event drops the payload it is given
Dropped(name) == dropped' = [at |-> inputs', event |-> name]

NothingDropped == [at |-> 0, event |-> ""]

AlertClosed == [isOpen |-> FALSE, title |-> "", description |-> "", type |-> "info"]

\* showAlert(title, description, type)
showAlert(title, description, type) ==
  [isOpen |-> TRUE, title |-> title, description |-> description, type |-> type]

\* a closeAlert that puts the initial alert back
closeAlertClearing(prev) == AlertClosed

\* closeAlert: prev => ({ ...prev, isOpen: false })
closeAlert(prev) == [prev EXCEPT !.isOpen = FALSE]

SenderInitial ==
  [ isSharing |-> FALSE, isImporting |-> FALSE, isTransporting |-> FALSE,
    isCompleted |-> FALSE, ticket |-> Null, selectedPath |-> Null,
    isLoading |-> FALSE, transferMetadata |-> Null, transferProgress |-> Null,
    importProgress |-> Null, transferStartTime |-> Null,
    alertDialog |-> AlertClosed ]

ReceiverInitial ==
  [ ticket |-> <<>>, isReceiving |-> FALSE, isTransporting |-> FALSE,
    isExporting |-> FALSE, isCompleted |-> FALSE, savePath |-> <<>>,
    transferMetadata |-> Null, transferProgress |-> Null,
    exportProgress |-> Null, resumedFrom |-> Null,
    transferStartTime |-> Null, fileNames |-> <<>>,
    alertDialog |-> AlertClosed ]

RefsInitial ==
  [ fileNamesRef |-> <<>>, transferProgressRef |-> Null,
    transferStartTimeRef |-> Null ]

(***************************************************************************)
(* The listener effect.  A generation is one run of the effect: clo holds  *)
(* what its handlers closed over, reg counts the listen calls of its       *)
(* setupListeners that have resolved (in source order), and cut is -1      *)
(* while the effect is in place and, once its cleanup has run, the number  *)
(* of unlisten functions the cleanup found assigned and called.  The       *)
(* listen calls of one setupListeners resolve in one step of the model, so *)
(* a cleanup finds either none or all of the unlisten functions assigned.  *)
(***************************************************************************)
HookEvents == IF hook = "sender" THEN SenderEvents ELSE ReceiverEvents

NewGeneration(clo) == [clo |-> clo, reg |-> 0, cut |-> -1]

\* handler k of generation g is registered with the event bus
Registered(g, k) == g.cut < k /\ k <= g.reg

\* setupListeners of generation g has a listen call outstanding
Registering(g) == g.reg < Len(HookEvents)

\* the position of an event name in the registration order
EventIndex(name) == CHOOSE k \in 1..Len(HookEvents) : HookEvents[k] = name

\* the generations whose handler for the event is registered, oldest first
LiveGens(name) ==
  { i \in 1..Len(listeners) : Registered(listeners[i], EventIndex(name)) }

\* a generation that is cleaned up and holds no handler and no outstanding
\* listen call is gone
Gone(g) == g.cut = Len(HookEvents)

RECURSIVE Collect(_)
Collect(gens) ==
  IF gens = <<>> THEN <<>>
  ELSE IF Gone(Head(gens)) THEN Collect(Tail(gens))
  ELSE <<Head(gens)>> \o Collect(Tail(gens))

\* the effect's cleanup: every unlisten function assigned so far is called
Cleanup(gens) ==
  Collect([ i \in 1..Len(gens) |->
              IF gens[i].cut = -1 THEN [gens[i] EXCEPT !.cut = gens[i].reg]
              ELSE gens[i] ])

\* the effect runs again: cleanup of the previous run, then setupListeners()
Resubscribe(gens, clo) == Cleanup(gens) \o <<NewGeneration(clo)>>

\* the listener effect after mount in a development build.  The application
\* renders inside <React.StrictMode>, which there runs every effect, cleans
\* it up and runs it again before anything else happens
StrictMount(clo) == Resubscribe(<< NewGeneration(clo) >>, clo)

\* the "await listen(...)" chain of one setupListeners resolves; the unlisten
\* functions are assigned to the variables of the effect run that started it
Listen ==
  /\ \E i \in 1..Len(listeners) :
       /\ Registering(listeners[i])
       /\ listeners' = [listeners EXCEPT ![i].reg = Len(HookEvents)]
  /\ UNCHANGED << analytics, dropped, hook, mounted, now, sender, receiver,
                  refs, rendered, pending, timers, engineStarted, inputs >>

\* the component unmounts: the effect's final cleanup
Unmount ==
  /\ mounted
  /\ mounted' = FALSE
  /\ listeners' = Cleanup(listeners)
  /\ UNCHANGED << analytics, dropped, hook, now, sender, receiver, refs,
                  rendered, pending, timers, engineStarted, inputs >>

\* something will read the clock against a time it holds: a pending timer,
\* or a start time in a state cell, a ref or a closure
TimeIsMeasured ==
  \/ timers # {}
  \/ sender.transferStartTime # Null \/ receiver.transferStartTime # Null
  \/ refs.transferStartTimeRef # Null
  \/ /\ hook = "sender"
     /\ \E i \in 1..Len(listeners) :
          listeners[i].clo.transferStartTime # Null

\* time passes; a timer that is due runs before the clock moves on.  Time
\* that nothing measures is left out: it only shifts the clock's origin
Tick ==
  /\ now + TickMs <= Epoch + MaxTicks * TickMs
  /\ \A d \in timers : d > now
  /\ TimeIsMeasured
  /\ now' = now + TickMs
  /\ UNCHANGED << analytics, dropped, hook, mounted, sender, receiver, refs,
                  rendered, listeners, pending, timers, engineStarted,
                  inputs >>

(***************************************************************************)
(* Progress arithmetic, as both hooks compute it                           *)
(***************************************************************************)
\* x / n for a positive integer n
DivideBy(x, n) == IF x.nan THEN NaN ELSE [x EXCEPT !.den = @ * n]

\* a percentage that is capped at 100
PercentageCapped(bytesTransferred, totalBytes) ==
  IF ~totalBytes.nan /\ totalBytes.num > 0
  THEN IF bytesTransferred.nan THEN NaN
       ELSE IF bytesTransferred.num > totalBytes.num THEN Num(100)
       ELSE [nan |-> FALSE, num |-> bytesTransferred.num * 100,
             den |-> totalBytes.num]
  ELSE Num(0)

\* totalBytes > 0 ? (bytesTransferred / totalBytes) * 100 : 0
Percentage(bytesTransferred, totalBytes) ==
  IF ~totalBytes.nan /\ totalBytes.num > 0
  THEN IF bytesTransferred.nan THEN NaN
       ELSE [nan |-> FALSE, num |-> bytesTransferred.num * 100,
             den |-> totalBytes.num]
  ELSE Num(0)

\* the snapshot a transfer-progress / receive-progress handler stores
ProgressSnapshot(parts) ==
  LET bytesTransferred == ParseInt(parts[1])
      totalBytes == ParseInt(parts[2])
      speedInt == ParseInt(parts[3])
  IN [ bytesTransferred |-> bytesTransferred, totalBytes |-> totalBytes,
       speedBps |-> DivideBy(speedInt, SpeedDivisor),
       percentage |-> Percentage(bytesTransferred, totalBytes) ]

\* transferStartTime ? endTime - transferStartTime : 0
Duration(startTime, endTime) ==
  IF startTime # Null /\ startTime[1] # 0 THEN endTime - startTime[1] ELSE 0

\* transferStartTime || endTime
StartOr(startTime, endTime) ==
  IF startTime # Null /\ startTime[1] # 0 THEN startTime[1] ELSE endTime

(***************************************************************************)
(* useSender: event handlers                                               *)
(***************************************************************************)
SenderActive == hook = "sender" /\ mounted

\* an emitted sender event reaches at least one registered handler
SenderHears(name) ==
  SenderActive /\ engineStarted /\ LiveGens(name) # {} /\ Emit

SenderEventFrame ==
  << analytics, hook, mounted, now, receiver, refs, rendered, listeners,
     pending, timers, engineStarted >>

ImportStarted ==
  /\ SenderHears("import-started") /\ Applied
  /\ sender' = [sender EXCEPT !.isImporting = TRUE, !.importProgress = Null]
  /\ UNCHANGED SenderEventFrame

\* the import-file-count handler, given one payload
ImportFileCountOf(payload) ==
  /\ SenderHears("import-file-count") /\ Applied
  /\ sender' = [sender EXCEPT !.importProgress =
                  Some([ processed |-> Num(0), total |-> ParseInt(payload),
                         percentage |-> Num(0) ])]
  /\ UNCHANGED SenderEventFrame

ImportFileCount == \E payload \in CountPayloads : ImportFileCountOf(payload)

ImportProgressOf(payload) ==
  /\ SenderHears("import-progress")
  /\ LET parts == Split(payload, ":")
     IN IF Len(parts) = 3
        THEN /\ sender' = [sender EXCEPT !.importProgress =
                             Some([ processed |-> ParseInt(parts[1]),
                                    total |-> ParseInt(parts[2]),
                                    percentage |-> ParseInt(parts[3]) ])]
             /\ Applied
        ELSE UNCHANGED sender /\ Dropped("import-progress")
  /\ UNCHANGED SenderEventFrame

ImportProgress == \E payload \in StepPayloads : ImportProgressOf(payload)

ImportCompleted ==
  /\ SenderHears("import-completed") /\ Applied
  /\ sender' = [sender EXCEPT !.isImporting = FALSE]
  /\ UNCHANGED SenderEventFrame

\* a transfer-started handler without its setIsCompleted(false)
TransferStartedKeepingCompleted ==
  /\ SenderHears("transfer-started") /\ Applied
  /\ sender' = [sender EXCEPT !.isTransporting = TRUE,
                              !.transferStartTime = Some(now),
                              !.transferProgress = Null]
  /\ UNCHANGED SenderEventFrame

TransferStarted ==
  /\ SenderHears("transfer-started") /\ Applied
  /\ sender' = [sender EXCEPT !.isTransporting = TRUE, !.isCompleted = FALSE,
                              !.transferStartTime = Some(now),
                              !.transferProgress = Null]
  /\ UNCHANGED SenderEventFrame

\* a transfer-progress handler that takes any payload of two fields or more
TransferProgressOfAtLeastTwo(payload) ==
  /\ SenderHears("transfer-progress")
  /\ LET parts == Split(payload, ":")
     IN IF Len(parts) >= 2
        THEN /\ sender' = [sender EXCEPT !.transferProgress =
                             Some(ProgressSnapshot(parts \o << <<>> >>))]
             /\ Applied
        ELSE UNCHANGED sender /\ Dropped("transfer-progress")
  /\ UNCHANGED SenderEventFrame

\* the transfer-progress handler, given one payload
TransferProgressOf(payload) ==
  /\ SenderHears("transfer-progress")
  /\ LET parts == Split(payload, ":")
     IN IF Len(parts) = 3
        THEN /\ sender' = [sender EXCEPT !.transferProgress =
                             Some(ProgressSnapshot(parts))]
             /\ Applied
        ELSE UNCHANGED sender /\ Dropped("transfer-progress")
  /\ UNCHANGED SenderEventFrame

TransferProgress ==
  \E payload \in ProgressPayloads : TransferProgressOf(payload)

\* the get_file_size query a transfer-completed handler issues; it carries
\* what the handler's continuation keeps: the closure's selectedPath and the
\* duration and times computed from the closure's transferStartTime
FileSizeQuery(clo, endTime) ==
  [ op |-> "get_file_size", path |-> clo.selectedPath[1],
    duration |-> Duration(clo.transferStartTime, endTime),
    startTime |-> StartOr(clo.transferStartTime, endTime),
    endTime |-> endTime ]

\* every registered transfer-completed handler runs, each with its closure
TransferCompleted ==
  /\ SenderHears("transfer-completed") /\ Applied
  /\ sender' = [sender EXCEPT !.isTransporting = FALSE, !.isCompleted = TRUE,
                              !.transferProgress = Null]
  /\ pending' = pending \cup
       { FileSizeQuery(listeners[i].clo, now) :
           i \in { j \in LiveGens("transfer-completed") :
                     Truthy(listeners[j].clo.selectedPath) } }
  /\ UNCHANGED << analytics, hook, mounted, now, receiver, refs, rendered,
                  listeners, timers, engineStarted >>

\* selectedPath.split('/').pop() || 'Unknown'
SenderFileName(path) ==
  OrElse(Pop(Split(path, "/")), << "U", "n", "k", "n", "o", "w", "n" >>)

\* the metadata of the try branch
SenderMetadata(query, fileSize) ==
  [ fileName |-> SenderFileName(query.path), fileSize |-> fileSize,
    duration |-> query.duration, startTime |-> query.startTime,
    endTime |-> query.endTime ]

\* a catch branch that gives up the name and the times as well
SenderFallbackMetadataBlank(query) ==
  [ fileName |-> << "U", "n", "k", "n", "o", "w", "n" >>, fileSize |-> 0,
    duration |-> 0, startTime |-> query.endTime, endTime |-> query.endTime ]

\* the metadata of the catch branch
SenderFallbackMetadata(query) ==
  [ fileName |-> SenderFileName(query.path), fileSize |-> 0,
    duration |-> query.duration, startTime |-> query.startTime,
    endTime |-> query.endTime ]

SenderReplyFrame ==
  << analytics, dropped, hook, mounted, now, receiver, refs, rendered,
     listeners, timers, engineStarted, inputs >>

\* get_file_size answers: the handler's try branch
FileSizeResolved ==
  /\ SenderActive
  /\ \E query \in pending, fileSize \in FileSizes :
       /\ query.op = "get_file_size"
       /\ sender' = [sender EXCEPT !.transferMetadata =
                       Some(SenderMetadata(query, fileSize))]
       /\ pending' = pending \ {query}
  /\ UNCHANGED SenderReplyFrame

\* get_file_size rejects: the handler's catch branch
FileSizeRejected ==
  /\ SenderActive
  /\ \E query \in pending :
       /\ query.op = "get_file_size"
       /\ sender' = [sender EXCEPT !.transferMetadata =
                       Some(SenderFallbackMetadata(query))]
       /\ pending' = pending \ {query}
  /\ UNCHANGED SenderReplyFrame

(***************************************************************************)
(* useSender: commands                                                     *)
(***************************************************************************)
SenderCommandFrame ==
  << analytics, dropped, hook, mounted, now, receiver, refs, rendered,
     listeners, timers >>

handleFileSelect ==
  /\ SenderActive /\ Command
  /\ \E path \in SelectablePaths :
       sender' = [sender EXCEPT !.selectedPath = Some(path)]
  /\ UNCHANGED << pending, engineStarted >>
  /\ UNCHANGED SenderCommandFrame

\* startSharing of the last render: guarded by that render's selectedPath
startSharing ==
  /\ SenderActive /\ Command
  /\ IF ~Truthy(rendered.selectedPath)
     THEN UNCHANGED << sender, pending, engineStarted >>
     ELSE /\ sender' = [sender EXCEPT !.isLoading = TRUE]
          /\ pending' = pending \cup
               { [op |-> "start_sharing", path |-> rendered.selectedPath[1]] }
          /\ engineStarted' = TRUE
  /\ UNCHANGED SenderCommandFrame

StartSharingResolved ==
  /\ SenderActive
  /\ \E call \in pending, result \in EngineTickets :
       /\ call.op = "start_sharing"
       /\ sender' = [sender EXCEPT !.ticket = Some(result), !.isSharing = TRUE,
                                   !.isLoading = FALSE]
       /\ pending' = pending \ {call}
  /\ UNCHANGED SenderReplyFrame

\* a startSharing whose catch branch is not followed by setIsLoading(false)
StartSharingRejectedStillLoading ==
  /\ SenderActive
  /\ \E call \in pending :
       /\ call.op = "start_sharing"
       /\ sender' = [sender EXCEPT
            !.alertDialog = showAlert("Sharing Failed", ErrorText, "error")]
       /\ pending' = pending \ {call}
  /\ UNCHANGED SenderReplyFrame

\* start_sharing rejects: the catch branch, then the finally branch
StartSharingRejected ==
  /\ SenderActive
  /\ \E call \in pending :
       /\ call.op = "start_sharing"
       /\ sender' = [sender EXCEPT
            !.alertDialog = showAlert("Sharing Failed", ErrorText, "error"),
            !.isLoading = FALSE]
       /\ pending' = pending \ {call}
  /\ UNCHANGED SenderReplyFrame

\* stopSharing, which resetForNewTransfer awaits: the command goes out
stopSharing ==
  /\ SenderActive /\ Command
  /\ pending' = pending \cup { [op |-> "stop_sharing"] }
  /\ UNCHANGED << sender, engineStarted >>
  /\ UNCHANGED SenderCommandFrame

\* the setters after "await invoke('stop_sharing')"
StopSharingReset(s) ==
  [s EXCEPT !.isSharing = FALSE, !.isImporting = FALSE,
            !.isTransporting = FALSE, !.isCompleted = FALSE,
            !.ticket = Null, !.selectedPath = Null,
            !.transferMetadata = Null, !.transferProgress = Null,
            !.importProgress = Null, !.transferStartTime = Null]

StopSharingResolved ==
  /\ SenderActive
  /\ \E call \in pending :
       /\ call.op = "stop_sharing"
       /\ sender' = StopSharingReset(sender)
       /\ pending' = pending \ {call}
  /\ UNCHANGED SenderReplyFrame

StopSharingRejected ==
  /\ SenderActive
  /\ \E call \in pending :
       /\ call.op = "stop_sharing"
       /\ sender' = [sender EXCEPT !.alertDialog =
                       showAlert("Stop Sharing Failed", ErrorText, "error")]
       /\ pending' = pending \ {call}
  /\ UNCHANGED SenderReplyFrame

SenderCloseAlert ==
  /\ SenderActive /\ Command
  /\ sender.alertDialog.isOpen
  /\ sender' = [sender EXCEPT !.alertDialog = closeAlert(@)]
  /\ UNCHANGED << pending, engineStarted >>
  /\ UNCHANGED SenderCommandFrame

\* what the sender's render hands to its closures, which is also the
\* dependency list of its listener effect
SenderView ==
  [ transferStartTime |-> sender.transferStartTime,
    selectedPath |-> sender.selectedPath ]

\* React commits a render of useSender and runs its effects: a dependency
\* changed, so the listener effect is cleaned up and run again
SenderRender ==
  /\ SenderActive
  /\ rendered # SenderView
  /\ rendered' = SenderView
  /\ listeners' = Resubscribe(listeners, SenderView)
  /\ UNCHANGED << analytics, dropped, hook, mounted, now, sender, receiver,
                  refs, pending, timers, engineStarted, inputs >>

SenderNext ==
  \/ ImportStarted \/ ImportFileCount \/ ImportProgress \/ ImportCompleted
  \/ TransferStarted \/ TransferProgress \/ TransferCompleted
  \/ FileSizeResolved \/ FileSizeRejected
  \/ handleFileSelect \/ startSharing
  \/ StartSharingResolved \/ StartSharingRejected
  \/ stopSharing \/ StopSharingResolved \/ StopSharingRejected
  \/ SenderCloseAlert \/ SenderRender

SenderInit ==
  /\ hook = "sender"
  /\ mounted = TRUE
  /\ now = Epoch
  /\ sender = SenderInitial
  /\ receiver = ReceiverInitial
  /\ refs = RefsInitial
  /\ rendered = SenderView
  /\ listeners = << NewGeneration(SenderView) >>
  /\ pending = {}
  /\ timers = {}
  /\ engineStarted = FALSE
  /\ inputs = 0
  /\ analytics = <<>>
  /\ dropped = NothingDropped

SpecSender == SenderInit /\ [][SenderNext \/ Listen \/ Unmount \/ Tick]_vars

(***************************************************************************)
(* useReceiver: inputs                                                     *)
(***************************************************************************)
\* what the user types as a ticket: "T1 " and a blank
TicketInputs == { << "T", "1", " " >>, << " " >> }

\* downloadDir() and the folder the picker returns
DownloadsPath == << "/", "d" >>
PickedFolder == << "/", "m" >>

\* receive-resumed payloads
ResumePayloads == { << "5" >> }

\* JSON text as tokens: a bracket or a comma, or a string literal
Tok(kind) == [kind |-> kind, text |-> <<>>]
Str(text) == [kind |-> "string", text |-> text]

\* receive-file-names payloads: ["s/x","s/y"], ["s/x","t/y"], ["a/b"] and
\* the truncated ["a/b"
FileNamesPayloads ==
  { << Tok("["), Str(<< "s", "/", "x" >>), Tok(","),
       Str(<< "s", "/", "y" >>), Tok("]") >>,
    << Tok("["), Str(<< "s", "/", "x" >>), Tok(","),
       Str(<< "t", "/", "y" >>), Tok("]") >>,
    << Tok("["), Str(<< "a", "/", "b" >>), Tok("]") >>,
    << Tok("["), Str(<< "a", "/", "b" >>) >> }

\* JSON.parse of an array of strings: [ok, value], ok false when it throws
JsonParse(tokens) ==
  LET n == Len(tokens)
      shaped ==
        /\ n >= 2 /\ tokens[1].kind = "[" /\ tokens[n].kind = "]"
        /\ (n = 2 \/ n % 2 = 1)
        /\ \A i \in 2..(n - 1) :
             tokens[i].kind = IF i % 2 = 0 THEN "string" ELSE ","
  IN IF shaped
     THEN [ok |-> TRUE,
           value |-> [ k \in 1..((n - 1) \div 2) |-> tokens[2 * k].text ]]
     ELSE [ok |-> FALSE, value |-> <<>>]

(***************************************************************************)
(* useReceiver: event handlers                                             *)
(***************************************************************************)
ReceiverActive == hook = "receiver" /\ mounted

ReceiverHears(name) ==
  ReceiverActive /\ engineStarted /\ LiveGens(name) # {} /\ Emit

\* setTransferProgress(value) as the listener effect's dependency list sees
\* it: a snapshot is a new object, null is the same null
ProgressSet(value) ==
  [rendered EXCEPT !.progressSeen = (value = Null /\ ~rendered.hadProgress)]

ReceiverEventFrame ==
  << analytics, hook, mounted, now, sender, refs, rendered, listeners,
     pending, timers, engineStarted >>

ReceiveStarted ==
  /\ ReceiverHears("receive-started") /\ Applied
  /\ receiver' = [receiver EXCEPT !.isTransporting = TRUE,
                                  !.isCompleted = FALSE,
                                  !.transferStartTime = Some(now),
                                  !.transferProgress = Null]
  /\ rendered' = ProgressSet(Null)
  /\ UNCHANGED << analytics, hook, mounted, now, sender, refs, listeners,
                  pending, timers, engineStarted >>

\* the receive-resumed handler, given one payload: each handler sets the
\* indicator and starts a timer of its own
ReceiveResumedOf(payload) ==
  /\ ReceiverHears("receive-resumed") /\ Applied
  /\ receiver' = [receiver EXCEPT !.resumedFrom = Some(ParseInt(payload))]
  /\ timers' = timers \cup {now + ResumeWindowMs}
  /\ UNCHANGED << analytics, hook, mounted, now, sender, refs, rendered,
                  listeners, pending, engineStarted >>

ReceiveResumed == \E payload \in ResumePayloads : ReceiveResumedOf(payload)

\* a timer set by a receive-resumed handler runs: () => setResumedFrom(null)
ResumeTimeout ==
  /\ hook = "receiver"
  /\ \E d \in timers :
       /\ d <= now
       /\ timers' = timers \ {d}
       /\ receiver' = IF mounted THEN [receiver EXCEPT !.resumedFrom = Null]
                      ELSE receiver
  /\ UNCHANGED << analytics, dropped, hook, mounted, now, sender, refs,
                  rendered, listeners, pending, engineStarted, inputs >>

\* the receive-progress handler, given one payload
ReceiveProgressOf(payload) ==
  /\ ReceiverHears("receive-progress")
  /\ LET parts == Split(payload, ":")
     IN IF Len(parts) = 3
        THEN /\ receiver' = [receiver EXCEPT !.transferProgress =
                               Some(ProgressSnapshot(parts))]
             /\ rendered' = ProgressSet(Some(ProgressSnapshot(parts)))
             /\ Applied
        ELSE UNCHANGED << receiver, rendered >> /\ Dropped("receive-progress")
  /\ UNCHANGED << analytics, hook, mounted, now, sender, refs, listeners,
                  pending, timers, engineStarted >>

ReceiveProgress == \E payload \in ProgressPayloads : ReceiveProgressOf(payload)

\* the receive-file-names handler, given one payload
ReceiveFileNamesOf(payload) ==
  /\ ReceiverHears("receive-file-names")
  /\ LET names == JsonParse(payload)
     IN IF names.ok
        THEN /\ receiver' = [receiver EXCEPT !.fileNames = names.value]
             /\ refs' = [refs EXCEPT !.fileNamesRef = names.value]
             /\ Applied
        ELSE UNCHANGED << receiver, refs >> /\ Dropped("receive-file-names")
  /\ UNCHANGED << analytics, hook, mounted, now, sender, rendered, listeners,
                  pending, timers, engineStarted >>

ReceiveFileNames ==
  \E payload \in FileNamesPayloads : ReceiveFileNamesOf(payload)

\* the export-started handler, given one payload
ExportStartedOf(payload) ==
  /\ ReceiverHears("export-started") /\ Applied
  /\ receiver' = [receiver EXCEPT
       !.isExporting = TRUE,
       !.exportProgress = Some([ current |-> Num(0),
                                 total |-> ParseInt(payload),
                                 percentage |-> Num(0) ])]
  /\ UNCHANGED ReceiverEventFrame

ExportStarted == \E payload \in CountPayloads : ExportStartedOf(payload)

\* an export-progress handler that computes the percentage itself
ExportProgressOfRecomputing(payload) ==
  /\ ReceiverHears("export-progress")
  /\ LET parts == Split(payload, ":")
     IN IF Len(parts) = 3
        THEN /\ receiver' = [receiver EXCEPT !.exportProgress =
                               Some([ current |-> ParseInt(parts[1]),
                                      total |-> ParseInt(parts[2]),
                                      percentage |->
                                        Percentage(ParseInt(parts[1]),
                                                   ParseInt(parts[2])) ])]
             /\ Applied
        ELSE UNCHANGED receiver /\ Dropped("export-progress")
  /\ UNCHANGED ReceiverEventFrame

\* the export-progress handler, given one payload
ExportProgressOf(payload) ==
  /\ ReceiverHears("export-progress")
  /\ LET parts == Split(payload, ":")
     IN IF Len(parts) = 3
        THEN /\ receiver' = [receiver EXCEPT !.exportProgress =
                               Some([ current |-> ParseInt(parts[1]),
                                      total |-> ParseInt(parts[2]),
                                      percentage |-> ParseInt(parts[3]) ])]
             /\ Applied
        ELSE UNCHANGED receiver /\ Dropped("export-progress")
  /\ UNCHANGED ReceiverEventFrame

ExportProgress == \E payload \in StepPayloads : ExportProgressOf(payload)

ExportCompleted ==
  /\ ReceiverHears("export-completed") /\ Applied
  /\ receiver' = [receiver EXCEPT !.isExporting = FALSE,
                                  !.exportProgress = Null]
  /\ UNCHANGED ReceiverEventFrame

\* `${currentFileNames.length} files`, for a list of fewer than ten names
CountLabel(n) ==
  << CHOOSE c \in DigitChars : DigitOf(c) = n >> \o
  << " ", "f", "i", "l", "e", "s" >>

\* let displayName = 'Downloaded File'
DownloadedFile ==
  << "D", "o", "w", "n", "l", "o", "a", "d", "e", "d", " ",
     "F", "i", "l", "e" >>

\* the display name the receive-completed handler derives
DisplayName(currentFileNames) ==
  IF Len(currentFileNames) = 0
  THEN DownloadedFile
  ELSE IF Len(currentFileNames) = 1
  THEN OrElse(Pop(Split(currentFileNames[1], "/")), currentFileNames[1])
  ELSE LET pathParts == Split(currentFileNames[1], "/")
       IN IF Len(pathParts) > 1
          THEN OrElse(pathParts[1], CountLabel(Len(currentFileNames)))
          ELSE CountLabel(Len(currentFileNames))

\* transferProgressRef.current?.totalBytes || 0
TotalBytesOr0(progress) ==
  IF progress = Null \/ progress[1].totalBytes.nan THEN 0
  ELSE progress[1].totalBytes.num

\* the metadata a receive-completed handler builds: the refs as they are
\* now, the save path as its closure holds it
ReceiverMetadata(clo, endTime) ==
  [ fileName |-> DisplayName(refs.fileNamesRef),
    fileSize |-> TotalBytesOr0(refs.transferProgressRef),
    duration |-> Duration(refs.transferStartTimeRef, endTime),
    startTime |-> StartOr(refs.transferStartTimeRef, endTime),
    endTime |-> endTime,
    downloadPath |-> clo.savePath ]

\* a receive-completed handler that leaves isTransporting as it is
ReceiveCompletedStillTransporting(r, metadata) ==
  [r EXCEPT !.isCompleted = TRUE, !.transferProgress = Null,
            !.transferMetadata = Some(metadata)]

\* the setters of the receive-completed handler
ReceiveCompletedSetters(r, metadata) ==
  [r EXCEPT !.isTransporting = FALSE, !.isCompleted = TRUE,
            !.transferProgress = Null, !.transferMetadata = Some(metadata)]

\* window.goatcounter when trackDataTransfer runs: its count() returns or
\* throws, or the object is not there
GoatCounter == {"counts", "throws", "absent"}

\* trackDataTransfer(fileSizeBytes): what the call leaves behind, the size it
\* was given and whether count() took it; nothing it does reaches its caller
trackDataTransfer(fileSizeBytes, goatcounter) ==
  [size_bytes |-> fileSizeBytes, sent |-> goatcounter = "counts"]

\* every registered receive-completed handler runs, oldest first; each
\* calls trackDataTransfer, and the metadata of the one registered last is
\* the one that stays
ReceiveCompleted ==
  /\ ReceiverHears("receive-completed") /\ Applied
  /\ LET last == CHOOSE i \in LiveGens("receive-completed") :
                    \A j \in LiveGens("receive-completed") : j <= i
     IN receiver' = ReceiveCompletedSetters(
                      receiver, ReceiverMetadata(listeners[last].clo, now))
  /\ \E outcomes \in
         [1..Cardinality(LiveGens("receive-completed")) -> GoatCounter] :
       analytics' = analytics \o
         [ k \in DOMAIN outcomes |->
             trackDataTransfer(TotalBytesOr0(refs.transferProgressRef),
                               outcomes[k]) ]
  /\ rendered' = ProgressSet(Null)
  /\ UNCHANGED << hook, mounted, now, sender, refs, listeners, pending,
                  timers, engineStarted >>

(***************************************************************************)
(* useReceiver: commands                                                   *)
(***************************************************************************)
ReceiverReplyFrame ==
  << analytics, dropped, hook, mounted, now, sender, refs, rendered,
     listeners, timers, engineStarted, inputs >>

ReceiverCommandFrame ==
  << analytics, dropped, hook, mounted, now, sender, refs, listeners, timers >>

\* initializeSavePath: downloadDir() answers
DownloadDirResolved ==
  /\ ReceiverActive
  /\ \E call \in pending :
       /\ call.op = "downloadDir"
       /\ receiver' = [receiver EXCEPT !.savePath = DownloadsPath]
       /\ pending' = pending \ {call}
  /\ UNCHANGED ReceiverReplyFrame

DownloadDirRejected ==
  /\ ReceiverActive
  /\ \E call \in pending :
       /\ call.op = "downloadDir"
       /\ receiver' = [receiver EXCEPT !.savePath = <<>>]
       /\ pending' = pending \ {call}
  /\ UNCHANGED ReceiverReplyFrame

handleTicketChange ==
  /\ ReceiverActive /\ Command
  /\ \E newTicket \in TicketInputs :
       receiver' = [receiver EXCEPT !.ticket = newTicket]
  /\ UNCHANGED << rendered, pending, engineStarted >>
  /\ UNCHANGED ReceiverCommandFrame

handleBrowseFolder ==
  /\ ReceiverActive /\ Command
  /\ pending' = pending \cup { [op |-> "open"] }
  /\ UNCHANGED << receiver, rendered, engineStarted >>
  /\ UNCHANGED ReceiverCommandFrame

\* the picker returns a folder, or null when the user cancels
BrowseFolderResolved ==
  /\ ReceiverActive
  /\ \E call \in pending, selected \in {Null, Some(PickedFolder)} :
       /\ call.op = "open"
       /\ receiver' = IF selected # Null
                      THEN [receiver EXCEPT !.savePath = selected[1]]
                      ELSE receiver
       /\ pending' = pending \ {call}
  /\ UNCHANGED ReceiverReplyFrame

BrowseFolderRejected ==
  /\ ReceiverActive
  /\ \E call \in pending :
       /\ call.op = "open"
       /\ receiver' = [receiver EXCEPT !.alertDialog =
                         showAlert("Folder Dialog Failed", ErrorText, "error")]
       /\ pending' = pending \ {call}
  /\ UNCHANGED ReceiverReplyFrame

\* a handleReceive that also runs setFileNames([])
ReceiveResetClearingNames(r) ==
  [r EXCEPT !.isReceiving = TRUE, !.isTransporting = FALSE,
            !.isExporting = FALSE, !.isCompleted = FALSE,
            !.transferMetadata = Null, !.transferProgress = Null,
            !.exportProgress = Null, !.resumedFrom = Null,
            !.transferStartTime = Null, !.fileNames = <<>>]

\* handleReceive without its setTransferMetadata(null)
ReceiveResetKeepingMetadata(r) ==
  [r EXCEPT !.isReceiving = TRUE, !.isTransporting = FALSE,
            !.isExporting = FALSE, !.isCompleted = FALSE,
            !.transferProgress = Null,
            !.exportProgress = Null, !.resumedFrom = Null,
            !.transferStartTime = Null]

\* the setters handleReceive runs before it invokes receive_file
ReceiveReset(r) ==
  [r EXCEPT !.isReceiving = TRUE, !.isTransporting = FALSE,
            !.isExporting = FALSE, !.isCompleted = FALSE,
            !.transferMetadata = Null, !.transferProgress = Null,
            !.exportProgress = Null, !.resumedFrom = Null,
            !.transferStartTime = Null]

\* handleReceive of the last render: that render's ticket and savePath
handleReceive ==
  /\ ReceiverActive /\ Command
  /\ IF Trim(rendered.ticket) = <<>>
     THEN UNCHANGED << receiver, rendered, pending, engineStarted >>
     ELSE /\ receiver' = ReceiveReset(receiver)
          /\ rendered' = ProgressSet(Null)
          /\ pending' = pending \cup
               { [ op |-> "receive_file", ticket |-> Trim(rendered.ticket),
                   outputPath |-> rendered.savePath ] }
          /\ engineStarted' = TRUE
  /\ UNCHANGED ReceiverCommandFrame

\* a handleReceive that takes the command's return for the completion
ReceiveFileResolvedCompleting ==
  /\ ReceiverActive
  /\ \E call \in pending :
       /\ call.op = "receive_file"
       /\ pending' = pending \ {call}
  /\ receiver' = [receiver EXCEPT !.isCompleted = TRUE]
  /\ UNCHANGED ReceiverReplyFrame

\* receive_file returns: handleReceive has nothing left to do
ReceiveFileResolved ==
  /\ ReceiverActive
  /\ \E call \in pending :
       /\ call.op = "receive_file"
       /\ pending' = pending \ {call}
  /\ UNCHANGED receiver
  /\ UNCHANGED ReceiverReplyFrame

\* the catch branch of handleReceive
ReceiveFailed(r) ==
  [r EXCEPT !.alertDialog = showAlert("Receive Failed", ErrorText, "error"),
            !.isReceiving = FALSE, !.isTransporting = FALSE,
            !.isExporting = FALSE, !.isCompleted = FALSE]

ReceiveFileRejected ==
  /\ ReceiverActive
  /\ \E call \in pending :
       /\ call.op = "receive_file"
       /\ receiver' = ReceiveFailed(receiver)
       /\ pending' = pending \ {call}
  /\ UNCHANGED ReceiverReplyFrame

\* resetForNewTransfer without its last setter, setFileNames([])
ReceiverResetKeepingNames(r) ==
  [r EXCEPT !.isReceiving = FALSE, !.isTransporting = FALSE,
            !.isExporting = FALSE, !.isCompleted = FALSE,
            !.ticket = <<>>, !.transferMetadata = Null,
            !.transferProgress = Null, !.exportProgress = Null,
            !.resumedFrom = Null, !.transferStartTime = Null]

\* the setters of the receiver's resetForNewTransfer
ReceiverReset(r) ==
  [r EXCEPT !.isReceiving = FALSE, !.isTransporting = FALSE,
            !.isExporting = FALSE, !.isCompleted = FALSE,
            !.ticket = <<>>, !.transferMetadata = Null,
            !.transferProgress = Null, !.exportProgress = Null,
            !.resumedFrom = Null, !.transferStartTime = Null,
            !.fileNames = <<>>]

resetForNewTransfer ==
  /\ ReceiverActive /\ Command
  /\ receiver' = ReceiverReset(receiver)
  /\ rendered' = ProgressSet(Null)
  /\ UNCHANGED << pending, engineStarted >>
  /\ UNCHANGED ReceiverCommandFrame

ReceiverCloseAlert ==
  /\ ReceiverActive /\ Command
  /\ receiver.alertDialog.isOpen
  /\ receiver' = [receiver EXCEPT !.alertDialog = closeAlert(@)]
  /\ UNCHANGED << rendered, pending, engineStarted >>
  /\ UNCHANGED ReceiverCommandFrame

\* what the receiver's render hands to its closures and dependency lists
ReceiverView ==
  [ transferStartTime |-> receiver.transferStartTime,
    savePath |-> receiver.savePath, ticket |-> receiver.ticket,
    hadProgress |-> receiver.transferProgress # Null, progressSeen |-> TRUE ]

\* the refs as the three ref-synchronising effects leave them
RefsSynced ==
  [ fileNamesRef |-> receiver.fileNames,
    transferProgressRef |-> receiver.transferProgress,
    transferStartTimeRef |-> receiver.transferStartTime ]

\* the listener effect's dependencies [transferStartTime, transferProgress]
ReceiverDepsChanged ==
  \/ rendered.transferStartTime # receiver.transferStartTime
  \/ ~rendered.progressSeen

\* React commits a render of useReceiver and runs its effects: the refs are
\* synchronised and, when a dependency changed, the listener effect is
\* cleaned up and run again with this render's savePath
ReceiverRender ==
  /\ ReceiverActive
  /\ rendered # ReceiverView \/ refs # RefsSynced
  /\ rendered' = ReceiverView
  /\ refs' = RefsSynced
  /\ listeners' =
       IF ReceiverDepsChanged
       THEN Resubscribe(listeners, [savePath |-> receiver.savePath])
       ELSE listeners
  /\ UNCHANGED << analytics, dropped, hook, mounted, now, sender, receiver,
                  pending, timers, engineStarted, inputs >>

ReceiverNext ==
  \/ ReceiveStarted \/ ReceiveResumed \/ ResumeTimeout \/ ReceiveProgress
  \/ ReceiveFileNames \/ ExportStarted \/ ExportProgress \/ ExportCompleted
  \/ ReceiveCompleted
  \/ DownloadDirResolved \/ DownloadDirRejected
  \/ handleTicketChange \/ handleBrowseFolder
  \/ BrowseFolderResolved \/ BrowseFolderRejected
  \/ handleReceive \/ ReceiveFileResolved \/ ReceiveFileRejected
  \/ resetForNewTransfer \/ ReceiverCloseAlert \/ ReceiverRender

\* useReceiver after mount, the listener effect having run as given
ReceiverMounted(gens) ==
  /\ hook = "receiver"
  /\ mounted = TRUE
  /\ now = Epoch
  /\ sender = SenderInitial
  /\ receiver = ReceiverInitial
  /\ refs = RefsInitial
  /\ rendered = ReceiverView
  /\ listeners = gens
  /\ pending = { [op |-> "downloadDir"] }
  /\ timers = {}
  /\ engineStarted = FALSE
  /\ inputs = 0
  /\ analytics = <<>>
  /\ dropped = NothingDropped

ReceiverInit ==
  ReceiverMounted(<< NewGeneration([savePath |-> ReceiverInitial.savePath]) >>)

SpecReceiver == ReceiverInit /\ [][ReceiverNext \/ Listen \/ Unmount \/ Tick]_vars

\* useReceiver in a development build
ReceiverStrictInit ==
  ReceiverMounted(StrictMount([savePath |-> ReceiverInitial.savePath]))

SpecReceiverStrict ==
  ReceiverStrictInit /\ [][ReceiverNext \/ Listen \/ Unmount \/ Tick]_vars

(***************************************************************************)
(* The application mounts one of the two hooks                             *)
(***************************************************************************)
Init == SenderInit \/ ReceiverInit

Next == SenderNext \/ ReceiverNext \/ Listen \/ Unmount \/ Tick

Spec == Init /\ [][Next]_vars

\* an engine that also sends integer payloads that are no integers
GarbledCount ==
  \E payload \in GarbledPayloads :
    \/ ImportFileCountOf(payload)
    \/ ExportStartedOf(payload)
    \/ ReceiveResumedOf(payload)

SpecGarbled == Init /\ [][Next \/ GarbledCount]_vars

(***************************************************************************)
(* Scenario B of the specification: a receive of ticket "T1" into the      *)
(* downloads folder, then receive-started, receive-resumed("500000"),      *)
(* receive-progress "1500000:2000000:750000" and receive-completed, in     *)
(* that order, with renders, listen() calls and the clock in between       *)
(***************************************************************************)
ScenarioTicket == << "T", "1" >>

ScenarioResume ==
  << "5", "0", "0", "0", "0", "0" >>

ScenarioProgress ==
  << "1", "5", "0", "0", "0", "0", "0", ":", "2", "0", "0", "0", "0", "0",
  "0", ":", "7", "5", "0", "0", "0", "0" >>

\* the engine emits an event for which no handler is registered
Unheard(name) ==
  /\ ReceiverActive /\ engineStarted /\ LiveGens(name) = {} /\ Emit
  /\ UNCHANGED << analytics, dropped, hook, mounted, now, sender, receiver,
                  refs, rendered, listeners, pending, timers, engineStarted >>

\* the four events of the scenario, the k-th as input k
ScenarioStarted == inputs = 0 /\ ReceiveStarted

ScenarioResumed ==
  /\ inputs = 1
  /\ ReceiveResumedOf(ScenarioResume) \/ Unheard("receive-resumed")

ScenarioProgressed ==
  /\ inputs = 2
  /\ ReceiveProgressOf(ScenarioProgress) \/ Unheard("receive-progress")

ScenarioCompleted ==
  /\ inputs = 3
  /\ ReceiveCompleted \/ Unheard("receive-completed")

\* useReceiver with its listeners registered, after handleTicketChange("T1"),
\* the render that follows and handleReceive()
ScenarioBInit ==
  /\ hook = "receiver"
  /\ mounted = TRUE
  /\ now = Epoch
  /\ sender = SenderInitial
  /\ receiver = ReceiveReset([ReceiverInitial EXCEPT
                                !.ticket = ScenarioTicket,
                                !.savePath = DownloadsPath])
  /\ refs = RefsInitial
  /\ rendered = [ transferStartTime |-> Null, savePath |-> DownloadsPath,
                  ticket |-> ScenarioTicket, hadProgress |-> FALSE,
                  progressSeen |-> TRUE ]
  /\ listeners = << [ clo |-> [savePath |-> ReceiverInitial.savePath],
                      reg |-> Len(ReceiverEvents), cut |-> -1 ] >>
  /\ pending = { [ op |-> "receive_file", ticket |-> ScenarioTicket,
                   outputPath |-> DownloadsPath ] }
  /\ timers = {}
  /\ engineStarted = TRUE
  /\ inputs = 0
  /\ analytics = <<>>
  /\ dropped = NothingDropped

ScenarioBNext ==
  \/ ScenarioStarted \/ ScenarioResumed \/ ScenarioProgressed
  \/ ScenarioCompleted
  \/ ResumeTimeout \/ ReceiveFileResolved \/ ReceiverRender \/ Listen \/ Tick

SpecScenarioB == ScenarioBInit /\ [][ScenarioBNext]_vars

(***************************************************************************)
(* Properties                                                              *)
(***************************************************************************)
SenderIsIdle(s) ==
  /\ ~s.isSharing /\ ~s.isImporting /\ ~s.isTransporting /\ ~s.isCompleted
  /\ s.ticket = Null /\ s.selectedPath = Null /\ s.transferMetadata = Null
  /\ s.transferProgress = Null /\ s.importProgress = Null
  /\ s.transferStartTime = Null

\* C1: whenever a stopSharing call returns, with the stop_sharing command
\* resolved or rejected, the sender's flags are all false and its ticket,
\* selected path, metadata, progress, import progress and start time are
\* cleared.
C1_StopSharingAlwaysResets ==
  [][(StopSharingResolved \/ StopSharingRejected) => SenderIsIdle(sender')]_vars

\* C2: a step of the receiver's resetForNewTransfer leaves every state cell
\* at its initial value (flags false, ticket empty, metadata, progress,
\* export progress, resume indicator and start time null, file names empty),
\* except the save path and the alert, which it leaves as they were.
C2_ResetReturnsToIdle ==
  [][resetForNewTransfer =>
       receiver' = [ReceiverInitial EXCEPT
                      !.savePath = receiver.savePath,
                      !.alertDialog = receiver.alertDialog]]_vars

\* C2 witness: a reset has emptied the file-name list that an event had
\* filled (the ref still holds the names, no render has followed) and the
\* alert of a failed receive is open.
C2_ResetAfterFileNames ==
  /\ hook = "receiver"
  /\ receiver.fileNames = <<>> /\ refs.fileNamesRef # <<>>
  /\ receiver.ticket = <<>> /\ ~receiver.isReceiving
  /\ receiver.alertDialog.isOpen

\* C3: once the hook is unmounted and every listen call has resolved, no
\* handler of the hook is registered with the event bus.
C3_NoHandlerAfterTeardown ==
  (~mounted /\ \A i \in 1..Len(listeners) : ~Registering(listeners[i]))
    => \A i \in 1..Len(listeners) :
         \A k \in 1..Len(HookEvents) : ~Registered(listeners[i], k)

\* C4: a timer clears the resume indicator only when the window of the
\* latest receive-resumed event is over: no timer of a later event is still
\* running when the indicator goes from set to null.
C4_ResumeWindowRestarts ==
  [][(ResumeTimeout /\ receiver.resumedFrom # Null
        /\ receiver'.resumedFrom = Null)
       => \A d \in timers : d <= now]_vars

\* C5: the metadata a receive-completed step writes has as fileSize the
\* totalBytes of the latest progress snapshot the state holds (0 if none).
C5_FileSizeIsLatestTotal ==
  [][ReceiveCompleted =>
       receiver'.transferMetadata[1].fileSize
         = TotalBytesOr0(receiver.transferProgress)]_vars

\* C6: the metadata a receive-completed step writes has as downloadPath the
\* save path configured when the event is handled.
C6_DownloadPathIsCurrent ==
  [][ReceiveCompleted =>
       receiver'.transferMetadata[1].downloadPath = receiver.savePath]_vars

\* C7: when transfer-completed is handled after a transfer-started, every
\* metadata the handlers prepare has that startedAt as startTime and the
\* time since it as duration.
C7_DurationFromStartedAt ==
  [][(TransferCompleted /\ sender.transferStartTime # Null) =>
       \A query \in pending' \ pending :
         /\ query.startTime = sender.transferStartTime[1]
         /\ query.duration = now - sender.transferStartTime[1]]_vars

\* C8: in both roles transferProgress is non-null only while isTransporting
\* is true.
C8_ProgressOnlyWhileTransporting ==
  /\ sender.transferProgress # Null => sender.isTransporting
  /\ receiver.transferProgress # Null => receiver.isTransporting

Count(flags) == Cardinality({ i \in 1..Len(flags) : flags[i] })

\* C9: at most one of isTransporting, isExporting, isCompleted is true in the
\* receiver and at most one of isImporting, isTransporting, isCompleted in
\* the sender.
C9_ExactlyOnePhase ==
  /\ Count(<< receiver.isTransporting, receiver.isExporting,
              receiver.isCompleted >>) <= 1
  /\ Count(<< sender.isImporting, sender.isTransporting,
              sender.isCompleted >>) <= 1

\* C9 as amended: in both roles isTransporting and isCompleted are never
\* true together; isExporting and isImporting are flags of their own, which
\* may be true along with either.
C9_TransportingExcludesCompleted ==
  /\ ~(receiver.isTransporting /\ receiver.isCompleted)
  /\ ~(sender.isTransporting /\ sender.isCompleted)

\* C9 witness: the receiver has completed a transfer while its export is
\* still marked as running.
C9_CompletedWhileExporting ==
  receiver.isCompleted /\ receiver.isExporting /\ ~receiver.isTransporting

\* C10: a startSharing or handleReceive that issues its command from a
\* completed session leaves isCompleted false and the metadata null.
C10_NewOperationSupersedes ==
  [][/\ (startSharing /\ Truthy(rendered.selectedPath) /\ sender.isCompleted)
          => (~sender'.isCompleted /\ sender'.transferMetadata = Null)
     /\ (handleReceive /\ Trim(rendered.ticket) # <<>> /\ receiver.isCompleted)
          => (~receiver'.isCompleted /\ receiver'.transferMetadata = Null)]_vars

\* the payloads that do not split on ':' into exactly three fields
MalformedPayloads ==
  { payload \in ProgressPayloads : Len(Split(payload, ":")) # 3 }

\* C11: a step in which the transfer-progress or the receive-progress handler
\* is given a payload that does not split on ':' into exactly three fields
\* changes no state of the hook: the state cells, the refs, what the closures
\* hold, the registered handlers, the commands in flight and the timers stay
\* as they were.
C11_ShortPayloadDropped ==
  [][\A payload \in MalformedPayloads :
       (/\ inputs' = inputs + 1
        /\ TransferProgressOf(payload) \/ ReceiveProgressOf(payload))
       => UNCHANGED << sender, receiver, refs, rendered, listeners, pending,
                       timers, mounted, analytics >>]_vars

\* C11 witness: the last input was a transfer-progress payload that its
\* handler dropped; the snapshot of an earlier payload is still there and
\* the handler is still registered.
C11_SnapshotKeptAfterDrop ==
  /\ dropped.at = inputs /\ dropped.event = "transfer-progress"
  /\ sender.transferProgress # Null
  /\ LiveGens("transfer-progress") # {}

\* the triples of integers the engine reports, and the text it sends for them
ProgressFields == { << 1, 2, 5 >>, << 4, 3, 0 >>, << 1, 0, 5 >> }

DecimalText(n) ==
  IF n < 0 THEN << "-", CHOOSE c \in DigitChars : DigitOf(c) = 0 - n >>
  ELSE << CHOOSE c \in DigitChars : DigitOf(c) = n >>

PayloadText(fields) ==
  DecimalText(fields[1]) \o << ":" >> \o DecimalText(fields[2])
    \o << ":" >> \o DecimalText(fields[3])

WellFormedPayload == [ fields \in ProgressFields |-> PayloadText(fields) ]

\* the number x is the fraction p/q
IsFraction(x, p, q) == ~x.nan /\ x.num * q = p * x.den

\* the snapshot the claim expects for the payload "a:b:c"
IsSnapshotOf(progress, fields) ==
  /\ progress # Null
  /\ IsFraction(progress[1].bytesTransferred, fields[1], 1)
  /\ IsFraction(progress[1].totalBytes, fields[2], 1)
  /\ IsFraction(progress[1].speedBps, fields[3], 1000)
  /\ IF fields[2] <= 0
     THEN IsFraction(progress[1].percentage, 0, 1)
     ELSE IsFraction(progress[1].percentage, fields[1] * 100, fields[2])

\* C12: a step in which the transfer-progress or the receive-progress handler
\* is given the text "a:b:c" of three integers stores a snapshot with
\* bytesTransferred = a, totalBytes = b, speedBps = c/1000 and percentage 0
\* when b <= 0, a/b*100 otherwise, also when that is above 100.
C12_SnapshotOfWellFormedPayload ==
  [][inputs' = inputs + 1 =>
       \A fields \in ProgressFields :
         /\ TransferProgressOf(WellFormedPayload[fields])
              => IsSnapshotOf(sender'.transferProgress, fields)
         /\ ReceiveProgressOf(WellFormedPayload[fields])
              => IsSnapshotOf(receiver'.transferProgress, fields)]_vars

\* C12 witness: the receiver holds the snapshot of "4:3:0", whose percentage
\* is 400/3, above 100.
C12_PercentageAboveHundred ==
  /\ receiver.transferProgress # Null
  /\ IsSnapshotOf(receiver.transferProgress, << 4, 3, 0 >>)
  /\ receiver.transferProgress[1].percentage.num
       > 100 * receiver.transferProgress[1].percentage.den

\* every path has a directory part and they all start with the same segment
CommonFirstSegment(paths) ==
  \A i \in 1..Len(paths) :
    /\ Len(Split(paths[i], "/")) > 1
    /\ Split(paths[i], "/")[1] = Split(paths[1], "/")[1]

\* the display name as specified for a list of paths
SpecifiedName(paths) ==
  IF Len(paths) = 0 THEN DownloadedFile
  ELSE IF Len(paths) = 1 THEN Pop(Split(paths[1], "/"))
  ELSE IF CommonFirstSegment(paths) THEN Split(paths[1], "/")[1]
  ELSE CountLabel(Len(paths))

\* C13: the metadata a receive-completed step writes has as fileName the
\* fallback label for an empty file-name list, the last segment of a single
\* path, the first segment that all of several paths share, and "{n} files"
\* for any other list of n paths.
C13_DisplayNameAsSpecified ==
  [][ReceiveCompleted =>
       receiver'.transferMetadata[1].fileName
         = SpecifiedName(refs.fileNamesRef)]_vars

\* the step adds one call of trackDataTransfer, made with the given size
OneObservationOf(fileSize) ==
  /\ Len(analytics') = Len(analytics) + 1
  /\ SubSeq(analytics', 1, Len(analytics)) = analytics
  /\ analytics'[Len(analytics')].size_bytes = fileSize

\* C14: the step in which a sender's transfer-completed handler finishes,
\* with its file-size query answered or failed, and writes the metadata adds
\* exactly one analytics observation, of the fileSize it wrote.
C14_SenderCompletionObserved ==
  [][(FileSizeResolved \/ FileSizeRejected) =>
       OneObservationOf(sender'.transferMetadata[1].fileSize)]_vars

\* C15: a step that handles a receive-completed event adds exactly one
\* analytics observation, of the fileSize of the metadata it writes; whatever
\* happens inside the analytics call, the step leaves the session completed
\* with metadata set and the alert as it was.
C15_ReceiverCompletionObservedOnce ==
  [][ReceiveCompleted =>
       /\ OneObservationOf(receiver'.transferMetadata[1].fileSize)
       /\ receiver'.isCompleted /\ receiver'.transferMetadata # Null
       /\ receiver'.alertDialog = receiver.alertDialog]_vars

\* C16: a transfer-completed step leaves the sender completed, not
\* transporting and without progress snapshot, whatever becomes of its
\* file-size query; the step in which the query fails changes nothing but
\* the metadata (no alert opens), and writes the metadata a success would
\* have written, with fileSize 0.
C16_FileSizeFailureStillCompletes ==
  [][/\ TransferCompleted =>
          /\ sender'.isCompleted /\ ~sender'.isTransporting
          /\ sender'.transferProgress = Null
     /\ FileSizeRejected =>
          \E query \in pending \ pending' :
            \A fileSize \in FileSizes :
              sender' = [sender EXCEPT !.transferMetadata =
                Some([SenderMetadata(query, fileSize) EXCEPT !.fileSize = 0])]
    ]_vars

\* C16 witness: a completed sender session whose file-size query failed:
\* metadata with fileSize 0 and the name of the selected path, no alert.
C16_CompletedWithSizeZero ==
  /\ sender.isCompleted /\ ~sender.isTransporting
  /\ sender.transferProgress = Null
  /\ sender.transferMetadata # Null
  /\ sender.transferMetadata[1].fileSize = 0
  /\ sender.transferMetadata[1].fileName = << "v" >>
  /\ sender.transferMetadata[1].duration > 0
  /\ ~sender.alertDialog.isOpen

\* C17: metadata is written once per handled completion event: a
\* transfer-completed step starts exactly one metadata write (one file-size
\* query, whose answer writes it), a receive-completed step writes it, and
\* so a completed session with no command in flight has its metadata.
C17_MetadataOncePerCompletion ==
  [][/\ TransferCompleted => Cardinality(pending' \ pending) = 1
     /\ ReceiveCompleted => receiver'.transferMetadata # Null
     /\ (sender'.isCompleted /\ pending' = {})
          => sender'.transferMetadata # Null
     /\ (receiver'.isCompleted /\ pending' = {})
          => receiver'.transferMetadata # Null]_vars

\* C18: the step in which the receive_file invocation fails opens an error
\* alert and leaves the receiver idle: the four flags false and no progress
\* snapshot, export progress, resume indicator or metadata left.
C18_ReceiveFailureResets ==
  [][ReceiveFileRejected =>
       /\ receiver'.alertDialog.isOpen /\ receiver'.alertDialog.type = "error"
       /\ ~receiver'.isReceiving /\ ~receiver'.isTransporting
       /\ ~receiver'.isExporting /\ ~receiver'.isCompleted
       /\ receiver'.transferProgress = Null
       /\ receiver'.exportProgress = Null
       /\ receiver'.resumedFrom = Null
       /\ receiver'.transferMetadata = Null]_vars

\* C19: a handleReceive step given a ticket that is empty or blank changes
\* nothing and issues no command.  Given any other ticket it issues the
\* receive_file command with the trimmed ticket and the save path, and no
\* other command, and in the same step, before the command can be answered,
\* sets isReceiving and clears what the previous session left: the other
\* flags, metadata, progress snapshot, export progress, resume indicator and
\* start time.  Ticket and save path are those of the render the command is
\* given in.
C19_ReceiveCommand ==
  [][handleReceive =>
       IF Trim(rendered.ticket) = <<>>
       THEN UNCHANGED << receiver, refs, rendered, listeners, pending, timers,
                         engineStarted, analytics >>
       ELSE LET command == [ op |-> "receive_file",
                             ticket |-> Trim(rendered.ticket),
                             outputPath |-> rendered.savePath ]
            IN /\ command.ticket # <<>>
               /\ Head(command.ticket) # " "
               /\ command.ticket[Len(command.ticket)] # " "
               /\ pending' = pending \cup {command}
               /\ receiver' =
                    [ReceiverInitial EXCEPT
                       !.isReceiving = TRUE,
                       !.ticket = receiver.ticket,
                       !.savePath = receiver.savePath,
                       !.fileNames = receiver.fileNames,
                       !.alertDialog = receiver.alertDialog]]_vars

\* C19 witness: the ticket typed is "T1 " and the receive_file command in
\* flight carries "T1" and the downloads folder; the session it was given
\* in had completed before, and its metadata is gone.
C19_TrimmedTicketInFlight ==
  /\ receiver.ticket = << "T", "1", " " >>
  /\ [ op |-> "receive_file", ticket |-> << "T", "1" >>,
       outputPath |-> DownloadsPath ] \in pending
  /\ receiver.isReceiving /\ ~receiver.isCompleted
  /\ receiver.transferMetadata = Null
  /\ analytics # <<>>

\* C20: isCompleted goes from false to true only in a step that handles the
\* role's completion event, and the step in which receive_file or
\* start_sharing returns successfully leaves isCompleted and the metadata as
\* they were.
C20_CompletionIsEventDriven ==
  [][/\ (~sender.isCompleted /\ sender'.isCompleted) => TransferCompleted
     /\ (~receiver.isCompleted /\ receiver'.isCompleted) => ReceiveCompleted
     /\ (ReceiveFileResolved \/ StartSharingResolved) =>
          /\ receiver'.isCompleted = receiver.isCompleted
          /\ receiver'.transferMetadata = receiver.transferMetadata
          /\ sender'.isCompleted = sender.isCompleted
          /\ sender'.transferMetadata = sender.transferMetadata]_vars

\* C20 witness: the receive_file command has returned successfully (the
\* receiver is still receiving and no command is in flight) and the session
\* is not completed and has no metadata.
C20_ReturnedNotCompleted ==
  /\ hook = "receiver" /\ engineStarted
  /\ receiver.isReceiving /\ pending = {}
  /\ ~receiver.isCompleted /\ receiver.transferMetadata = Null

\* what a startSharing step and the two ends of its start_sharing call do,
\* but for what a failed call leaves of isSharing and ticket
StartSharingSteps ==
  /\ startSharing =>
       IF ~Truthy(rendered.selectedPath)
       THEN UNCHANGED << sender, receiver, refs, rendered, listeners, pending,
                         timers, engineStarted, analytics >>
       ELSE /\ [op |-> "start_sharing", path |-> rendered.selectedPath[1]]
                 \in pending'
            /\ sender'.isSharing = sender.isSharing
            /\ sender'.ticket = sender.ticket
  /\ StartSharingResolved =>
       /\ sender'.ticket # Null /\ sender'.ticket[1] \in EngineTickets
       /\ sender'.isSharing /\ ~sender'.isLoading
       /\ sender'.alertDialog = sender.alertDialog
  /\ StartSharingRejected =>
       /\ sender'.alertDialog.isOpen /\ sender'.alertDialog.type = "error"
       /\ ~sender'.isLoading

\* C21: a startSharing step with no selected path changes nothing and issues
\* no command; with a path it issues start_sharing.  When the call succeeds
\* the returned ticket is stored, isSharing is set and isLoading is false;
\* when it fails an error alert is open, isLoading is false, isSharing is
\* false and ticket is null.
C21_StartSharingContract ==
  [][/\ StartSharingSteps
     /\ StartSharingRejected =>
          ~sender'.isSharing /\ sender'.ticket = Null]_vars

\* C21 amended: as C21, but a failed call leaves isSharing and ticket as they
\* were: false and null when no earlier call had succeeded, true and the
\* earlier ticket when one had.
C21_StartFailureKeepsTicket ==
  [][/\ StartSharingSteps
     /\ StartSharingRejected =>
          /\ sender'.isSharing = sender.isSharing
          /\ sender'.ticket = sender.ticket]_vars

\* C21 witness: a start_sharing call made with a path selected has failed;
\* the alert is open, nothing is loading or in flight, and the sender is
\* not sharing and has no ticket.
C21_FailedStartIsIdle ==
  /\ hook = "sender" /\ engineStarted /\ pending = {}
  /\ sender.alertDialog = showAlert("Sharing Failed", ErrorText, "error")
  /\ sender.selectedPath # Null
  /\ ~sender.isLoading /\ ~sender.isSharing /\ sender.ticket = Null

\* the alert of the mounted hook
AlertOf(s, r) == IF hook = "sender" THEN s.alertDialog ELSE r.alertDialog

\* C22: in every state at most one alert is open.  A step that calls
\* showAlert (a command or a resource request has failed) leaves the alert
\* slot open with exactly the title, description and severity of that call,
\* whatever alert was open before, and a closeAlert step changes nothing of
\* the slot but isOpen, which it clears.
C22_SingleSlotLastWriteWins ==
  [][/\ ~(sender.alertDialog.isOpen /\ receiver.alertDialog.isOpen)
     /\ ~(sender'.alertDialog.isOpen /\ receiver'.alertDialog.isOpen)
     /\ (inputs' = inputs /\ pending' # pending) =>
          /\ StartSharingRejected =>
               AlertOf(sender', receiver')
                 = showAlert("Sharing Failed", ErrorText, "error")
          /\ StopSharingRejected =>
               AlertOf(sender', receiver')
                 = showAlert("Stop Sharing Failed", ErrorText, "error")
          /\ ReceiveFileRejected =>
               AlertOf(sender', receiver')
                 = showAlert("Receive Failed", ErrorText, "error")
          /\ BrowseFolderRejected =>
               AlertOf(sender', receiver')
                 = showAlert("Folder Dialog Failed", ErrorText, "error")
     /\ (inputs' = inputs + 1 /\ pending' = pending) =>
          ((SenderCloseAlert \/ ReceiverCloseAlert) =>
             /\ ~AlertOf(sender', receiver').isOpen
             /\ AlertOf(sender', receiver').title
                  = AlertOf(sender, receiver).title
             /\ AlertOf(sender', receiver').description
                  = AlertOf(sender, receiver).description
             /\ AlertOf(sender', receiver').type
                  = AlertOf(sender, receiver).type)]_vars

\* C22 witness: the user typed a ticket, started a receive and opened the
\* folder picker, three inputs in all; the receive failed and its alert was
\* open when the picker failed, and the alert now is the picker's.
C22_SecondAlertReplacedFirst ==
  /\ hook = "receiver" /\ inputs = 3 /\ engineStarted /\ pending = {}
  /\ ~receiver.isReceiving
  /\ receiver.alertDialog
       = showAlert("Folder Dialog Failed", ErrorText, "error")

\* the text is that of a non-negative integer
IsIntegerText(s) == s # <<>> /\ \A i \in 1..Len(s) : s[i] \in DigitChars

\* the step hands a malformed payload to the handler of its event
MalformedEventStep ==
  \/ \E payload \in FileNamesPayloads :
       ~JsonParse(payload).ok /\ ReceiveFileNamesOf(payload)
  \/ \E payload \in StepPayloads :
       /\ Len(Split(payload, ":")) # 3
       /\ ImportProgressOf(payload) \/ ExportProgressOf(payload)
  \/ \E payload \in CountPayloads \cup ResumePayloads \cup GarbledPayloads :
       /\ ~IsIntegerText(payload)
       /\ \/ ImportFileCountOf(payload)
          \/ ExportStartedOf(payload)
          \/ ReceiveResumedOf(payload)

\* the step handles an event of the engine
EventStep ==
  \/ ImportStarted \/ ImportFileCount \/ ImportProgress \/ ImportCompleted
  \/ TransferStarted \/ TransferProgress \/ TransferCompleted
  \/ ReceiveStarted \/ ReceiveResumed \/ ReceiveProgress \/ ReceiveFileNames
  \/ ExportStarted \/ ExportProgress \/ ExportCompleted \/ ReceiveCompleted
  \/ GarbledCount

\* C23: a step that hands a malformed payload to an event handler
\* (receive-file-names text that is no JSON, an import-progress or
\* export-progress payload without exactly three fields, an integer payload
\* that is no integer) changes no cell, ref or timer of the session, and no
\* step that handles an event changes the alert.
C23_ParseFailuresAreSilent ==
  [][/\ MalformedEventStep => UNCHANGED << sender, receiver, refs, timers >>
     /\ EventStep => /\ sender'.alertDialog = sender.alertDialog
                     /\ receiver'.alertDialog = receiver.alertDialog]_vars

\* C24: the fileNames cell changes only in a step of the receive-file-names
\* handler or of resetForNewTransfer, and the list the completion handler
\* reads, fileNamesRef, changes only in a step of the receive-file-names
\* handler or in the render that follows a resetForNewTransfer, which
\* empties it.  Every other event, command, reply, timer and render leaves
\* both as they are.
C24_FileNamesRetained ==
  [][/\ receiver'.fileNames # receiver.fileNames =>
          ReceiveFileNames \/ resetForNewTransfer
     /\ refs'.fileNamesRef # refs.fileNamesRef =>
          \/ ReceiveFileNames
          \/ /\ ReceiverRender
             /\ receiver.fileNames = <<>> /\ refs'.fileNamesRef = <<>>]_vars

\* C24 witness: the session was sent the list ["a/b"] and has completed; the
\* completion handler named the transfer "b" after it, neither the cell nor
\* the ref holds a progress snapshot, and the list the completion handler
\* reads is still ["a/b"].
C24_NamesOutliveProgress ==
  /\ hook = "receiver" /\ receiver.isCompleted
  /\ refs.fileNamesRef = << << "a", "/", "b" >> >>
  /\ receiver.fileNames = refs.fileNamesRef
  /\ receiver.transferProgress = Null /\ refs.transferProgressRef = Null
  /\ receiver.transferMetadata # Null
  /\ receiver.transferMetadata[1].fileName = << "b" >>
  /\ rendered = ReceiverView

\* C25: in scenario B, once receive-completed has been emitted the session
\* is completed with metadata.fileName the fallback label and
\* metadata.fileSize 2000000, whatever renders, re-subscriptions and ref
\* synchronisations came between the events; the receive-resumed event sets
\* resumedFrom to 500000, and only the timer's auto-clear changes it.
C25_ScenarioB ==
  [][/\ inputs' = 4 =>
          /\ receiver'.isCompleted
          /\ receiver'.transferMetadata # Null
          /\ receiver'.transferMetadata[1].fileName = DownloadedFile
          /\ receiver'.transferMetadata[1].fileSize = 2000000
     /\ ScenarioResumed => receiver'.resumedFrom = Some(Num(500000))
     /\ (/\ receiver.resumedFrom = Some(Num(500000))
         /\ receiver'.resumedFrom # receiver.resumedFrom) => ResumeTimeout
    ]_vars

\* the export counters the claim expects: the numbers as they are written
ExportCounters(current, total, percentage) ==
  Some([ current |-> Num(current), total |-> Num(total),
         percentage |-> Num(percentage) ])

\* the payloads "3" and "1:3:33"
ExportTotalThree == << "3" >>
ExportOneOfThree == << "1", ":", "3", ":", "3", "3" >>

\* C26: a step of the export-started handler given "3" sets isExporting and
\* the export progress {0, 3, 0}; a step of the export-progress handler
\* given "1:3:33" sets the export progress {1, 3, 33}, the percentage as it
\* was sent; a step of the export-completed handler clears isExporting and
\* the export progress.  Each of the three changes nothing else of the
\* receiver: isTransporting, isCompleted, the progress snapshot and the
\* metadata stay as they were.
C26_ExportLifecycle ==
  [][(inputs' = inputs + 1 /\ pending' = pending /\ timers' = timers) =>
       /\ ExportStartedOf(ExportTotalThree) =>
            receiver' = [receiver EXCEPT
                           !.isExporting = TRUE,
                           !.exportProgress = ExportCounters(0, 3, 0)]
       /\ ExportProgressOf(ExportOneOfThree) =>
            receiver' = [receiver EXCEPT
                           !.exportProgress = ExportCounters(1, 3, 33)]
       /\ ExportCompleted =>
            receiver' = [receiver EXCEPT !.isExporting = FALSE,
                                         !.exportProgress = Null]
       /\ (ExportStarted \/ ExportProgress \/ ExportCompleted) =>
            /\ receiver'.isTransporting = receiver.isTransporting
            /\ receiver'.isCompleted = receiver.isCompleted
            /\ receiver'.transferProgress = receiver.transferProgress
            /\ receiver'.transferMetadata = receiver.transferMetadata]_vars

\* C26 witness: the export has started and one of its three files is done,
\* while the session is still receiving.
C26_ExportUnderWay ==
  /\ hook = "receiver" /\ receiver.isReceiving /\ receiver.isExporting
  /\ receiver.exportProgress = ExportCounters(1, 3, 33)

\* C27: no step of either role ends in a state with isTransporting and
\* isCompleted both true: a step of a started handler ends with
\* isTransporting true and isCompleted false, a step of a completed handler
\* with isCompleted true and isTransporting false, and no other step sets
\* either flag.
C27_StartedExcludesCompleted ==
  [][/\ inputs' = inputs + 1 =>
          /\ TransferStarted =>
               sender'.isTransporting /\ ~sender'.isCompleted
          /\ TransferCompleted =>
               sender'.isCompleted /\ ~sender'.isTransporting
          /\ ReceiveStarted =>
               receiver'.isTransporting /\ ~receiver'.isCompleted
          /\ ReceiveCompleted =>
               receiver'.isCompleted /\ ~receiver'.isTransporting
     /\ (~sender.isTransporting /\ sender'.isTransporting) => TransferStarted
     /\ (~sender.isCompleted /\ sender'.isCompleted) => TransferCompleted
     /\ (~receiver.isTransporting /\ receiver'.isTransporting)
          => ReceiveStarted
     /\ (~receiver.isCompleted /\ receiver'.isCompleted) => ReceiveCompleted
     /\ ~(sender'.isTransporting /\ sender'.isCompleted)
     /\ ~(receiver'.isTransporting /\ receiver'.isCompleted)]_vars

\* C27 witness: a transfer-started event has been handled after a completed
\* transfer whose metadata is still there; the sender is transporting and
\* no longer completed.
C27_StartedAfterCompleted ==
  /\ hook = "sender" /\ sender.transferMetadata # Null
  /\ sender.isTransporting /\ ~sender.isCompleted

\* C28: while the hook is mounted at most one handler is registered for each
\* of its events, whatever re-runs of the listener effect and resolutions
\* of listen calls came before.
C28_OneHandlerPerEvent ==
  mounted =>
    \A k \in 1..Len(HookEvents) : Cardinality(LiveGens(HookEvents[k])) <= 1

\* C29: with the initial listeners registered and the hook mounted, no event
\* the engine emits finds its handler missing.
C29_NoEventLost ==
  [][\A k \in 1..Len(ReceiverEvents) : ~Unheard(ReceiverEvents[k])]_vars

\* a stopSharing has succeeded while a get_file_size query was in flight:
\* only its reset clears the selected path and leaves every flag false, and
\* only a transfer-completed handler that ran before it, and set isCompleted,
\* can have issued the query
StoppedWithQueryInFlight ==
  /\ hook = "sender" /\ SenderIsIdle(sender)
  /\ \E query \in pending : query.op = "get_file_size"

\* C30: once a stopSharing has succeeded with a get_file_size query still in
\* flight, no step other than a new command or a new event changes
\* transferMetadata, ticket or isSharing: they stay null, null and false.
C30_ResetNotUndone ==
  [][(StoppedWithQueryInFlight /\ inputs' = inputs) =>
       /\ sender'.transferMetadata = Null
       /\ sender'.ticket = Null
       /\ ~sender'.isSharing]_vars

====
